---- MODULE Spec2Model ----
(***************************************************************************)
(* Model of the vectorstore cache manager of src/dataLoading.py: the       *)
(* content fingerprint, the metadata record, build_vectorstore,            *)
(* load_vectorstore and initialize_vectorstore, run by the import-time     *)
(* initialization and by the worker threads of POST /rebuild (src/main.py) *)
(* against one shared disk: the syllabus PDF, the index directory with its *)
(* two files, and the metadata file.  On top of it, the server of          *)
(* src/main.py (startup, GET /status, POST /rebuild, POST /lesson) and the *)
(* interactive tutor of src/rag.py (load_subject_components).              *)
(***************************************************************************)
EXTENDS Integers, Sequences, FiniteSets, TLC

\* ------------------------------------------------------------------ bounds
NumDocs == 2        \* distinct contents the syllabus PDF can have
MaxCalls == 3       \* initialize_vectorstore invocations in one behaviour
MaxEdits == 1       \* replacements / removals of files by the environment

Docs == 1..NumDocs
\* The threads that can be inside initialize_vectorstore: two, so that two
\* POST /rebuild requests can overlap.
Procs == {1, 2}

\* ------------------------------------------------------- values on the disk
Absent == 0                      \* the PDF path does not exist
NoneValue == -1                  \* Python's None (dict.get on a missing key)

\* A file of the index directory: missing, cut short by a failed write, or
\* completely written from the index built over document content src.
NoFile == [st |-> "missing", src |-> 0]
PartialFile == [st |-> "partial", src |-> 0]
CompleteFile(c) == [st |-> "complete", src |-> c]

\* An in-memory FAISS vectorstore: the vector index and the docstore, each
\* named by the document content it was made from. NoVectorstore is None.
NoVectorstore == [index |-> 0, docstore |-> 0]
Vectorstore(i, d) == [index |-> i, docstore |-> d]

\* A RAG chain: the vectorstore its retriever searches. NoChain is None.
NoChain == [retriever |-> NoVectorstore]
Chain(vs) == [retriever |-> vs]

\* The metadata file: {} when missing, else the four keys save_metadata writes.
\* "truncated" is the file between open(METADATA_FILE, 'w') and json.dump.
NoMetadata ==
  [st |-> "missing", file_hash |-> NoneValue, num_documents |-> NoneValue,
   num_chunks |-> NoneValue, last_build |-> NoneValue]
TruncatedMetadata ==
  [st |-> "truncated", file_hash |-> NoneValue, num_documents |-> NoneValue,
   num_chunks |-> NoneValue, last_build |-> NoneValue]

VARIABLES
  pdf,          \* content of PDF_FILE_PATH, or Absent
  dirExists,    \* VECTORSTORE_PATH exists
  faiss,        \* VECTORSTORE_PATH/index.faiss
  pkl,          \* VECTORSTORE_PATH/index.pkl
  meta,         \* METADATA_FILE
  clock,        \* datetime.now(), ticking at every save_metadata
  pc,           \* per thread: the statement it is about to execute
  force,        \* per thread: the force_rebuild argument
  documents,    \* per thread: content loader.load() returned (0: not yet)
  vectorstore,  \* per thread: the local `vectorstore`
  embeddings,   \* per thread: the local `embeddings` is bound
  files_hash,   \* per thread: the local `files_hash`
  failed,       \* per thread: the statement that raised ("none": nothing did)
  builds,       \* per thread: build_vectorstore calls of this invocation
  ret,          \* per thread: "pending" | "value" | "raised"
  calls,        \* initialize_vectorstore invocations so far
  edits,        \* environment steps so far
  phase,              \* the server process: "off" | "importing" | "serving" | "crashed"
  module_vectorstore, \* dataLoading.vectorstore, the global bound at import
  llm,                \* rag.llm is not None
  current_rag_chain,  \* main.current_rag_chain
  everIndex,          \* some initialization of this process returned an index
  lastIndex,          \* the most recent initialization of this process returned an index
  resp,               \* the last HTTP response sent
  rag_components,     \* rag.RAG_COMPONENTS: the subjects with ready components
  loading             \* subject_name of the load_subject_components call in progress

disk == <<pdf, dirExists, faiss, pkl, meta, clock>>
locals == <<pc, force, documents, vectorstore, embeddings, files_hash, failed, builds, ret>>
appvars == <<phase, module_vectorstore, llm, current_rag_chain, everIndex,
             lastIndex, resp>>
ragvars == <<rag_components, loading>>
vars == <<pdf, dirExists, faiss, pkl, meta, clock, pc, force, documents,
          vectorstore, embeddings, files_hash, failed, builds, ret, calls, edits,
          phase, module_vectorstore, llm, current_rag_chain, everIndex,
          lastIndex, resp, rag_components, loading>>

\* ------------------------------------------------------------ fingerprint
\* The blocks f.read(4096) yields for a file of content c.
FileBlocks(c) == <<c>>

HashBase == NumDocs + 1

\* hash_md5.update folded over the blocks; injective on block sequences.
RECURSIVE HashUpdate(_, _)
HashUpdate(h, blocks) ==
  IF blocks = <<>> THEN h
  ELSE HashUpdate(h * HashBase + Head(blocks), Tail(blocks))

\* hashlib.md5() with nothing fed to it.
EmptyDigest == 0

get_file_hash(file) ==
  IF file # Absent THEN HashUpdate(EmptyDigest, FileBlocks(file))
  ELSE EmptyDigest

\* len(documents) and len(text_chunks) for a document of content c.
NumPages(c) == c
NumChunks(c) == 2 * c

\* ---------------------------------------------------------------- metadata
\* get_metadata: {} (every key None) when the file is missing, the record when
\* it is written; json.load raises on a truncated file.
get_metadata_raises == meta.st = "truncated"
get_metadata == meta

MetadataRecord(h, nd, nc, now) ==
  [st |-> "written", file_hash |-> h, num_documents |-> nd,
   num_chunks |-> nc, last_build |-> now]

\* should_rebuild_vectorstore without the directory test of lines 71-73.
ShouldRebuildHashOnly == meta.file_hash # get_file_hash(pdf)

\* should_rebuild_vectorstore with the comparison of line 78 inverted.
ShouldRebuildOnEqualHash ==
  IF ~dirExists THEN TRUE
  ELSE meta.file_hash = get_file_hash(pdf)

\* should_rebuild_vectorstore: the directory test comes first and returns
\* before the metadata is read.
should_rebuild_raises == dirExists /\ get_metadata_raises

should_rebuild_vectorstore ==
  IF ~dirExists THEN TRUE
  ELSE get_metadata.file_hash # get_file_hash(pdf)

\* ------------------------------------------------------------------- Init
\* No thread is in initialize_vectorstore, no process is up.
NoCalls ==
  /\ pc = [p \in Procs |-> "idle"]
  /\ force = [p \in Procs |-> FALSE]
  /\ documents = [p \in Procs |-> 0]
  /\ vectorstore = [p \in Procs |-> NoVectorstore]
  /\ embeddings = [p \in Procs |-> FALSE]
  /\ files_hash = [p \in Procs |-> NoneValue]
  /\ failed = [p \in Procs |-> "none"]
  /\ builds = [p \in Procs |-> 0]
  /\ ret = [p \in Procs |-> "pending"]
  /\ calls = 0
  /\ edits = 0
  /\ phase = "off"
  /\ module_vectorstore = NoVectorstore
  /\ llm = FALSE
  /\ current_rag_chain = NoChain
  /\ everIndex = FALSE
  /\ lastIndex = FALSE
  /\ resp = "none"
  /\ rag_components = {}
  /\ loading = ""

\* A checkout before its first run: no index directory, no metadata file.
Init ==
  /\ pdf \in {Absent} \cup Docs
  /\ dirExists = FALSE
  /\ faiss = NoFile
  /\ pkl = NoFile
  /\ meta = NoMetadata
  /\ clock = 0
  /\ NoCalls

\* ------------------------------------------------------------ environment
\* The syllabus PDF is replaced by another version, or removed.
ReplaceDoc(c) ==
  /\ edits < MaxEdits
  /\ c # pdf
  /\ pdf' = c
  /\ edits' = edits + 1
  /\ UNCHANGED <<dirExists, faiss, pkl, meta, clock, locals, calls>>

RemoveDoc ==
  /\ edits < MaxEdits
  /\ pdf # Absent
  /\ pdf' = Absent
  /\ edits' = edits + 1
  /\ UNCHANGED <<dirExists, faiss, pkl, meta, clock, locals, calls>>

\* The operator deletes the index directory (the cache) with its files.
RemoveIndexDir ==
  /\ edits < MaxEdits
  /\ dirExists
  /\ dirExists' = FALSE
  /\ faiss' = NoFile
  /\ pkl' = NoFile
  /\ edits' = edits + 1
  /\ UNCHANGED <<pdf, meta, clock, locals, calls>>

\* ------------------------------------------------------------------ calls
Running(p) == pc[p] \notin {"idle", "done"}

\* initialize_vectorstore is called with force_rebuild=False by the import of
\* dataLoading (before the application serves anything), and with
\* force_rebuild=True by POST /rebuild in a worker thread (asyncio.to_thread),
\* where nothing keeps two requests apart.
Call(p, f) ==
  /\ calls < MaxCalls
  /\ ~Running(p)
  /\ \A q \in Procs : q < p => Running(q)    \* the pool hands out its first free thread
  /\ IF f THEN \A q \in Procs : Running(q) => force[q]
          ELSE \A q \in Procs : ~Running(q)
  /\ calls' = calls + 1
  /\ pc' = [pc EXCEPT ![p] = "init"]
  /\ force' = [force EXCEPT ![p] = f]
  /\ documents' = [documents EXCEPT ![p] = 0]
  /\ vectorstore' = [vectorstore EXCEPT ![p] = NoVectorstore]
  /\ embeddings' = [embeddings EXCEPT ![p] = FALSE]
  /\ files_hash' = [files_hash EXCEPT ![p] = NoneValue]
  /\ failed' = [failed EXCEPT ![p] = "none"]
  /\ builds' = [builds EXCEPT ![p] = 0]
  /\ ret' = [ret EXCEPT ![p] = "pending"]
  /\ UNCHANGED <<disk, edits>>

\* Entering build_vectorstore: a fresh frame, vectorstore = None and
\* embeddings not yet assigned.
EnterBuild(p) ==
  /\ pc' = [pc EXCEPT ![p] = "b_exists"]
  /\ builds' = [builds EXCEPT ![p] = @ + 1]
  /\ documents' = [documents EXCEPT ![p] = 0]
  /\ vectorstore' = [vectorstore EXCEPT ![p] = NoVectorstore]
  /\ embeddings' = [embeddings EXCEPT ![p] = FALSE]
  /\ files_hash' = [files_hash EXCEPT ![p] = NoneValue]

\* An exception leaves the function: the caller gets no value.
Raise(p, what) ==
  /\ pc' = [pc EXCEPT ![p] = "done"]
  /\ ret' = [ret EXCEPT ![p] = "raised"]
  /\ failed' = [failed EXCEPT ![p] = what]

\* initialize_vectorstore: build when forced or when should_rebuild says so,
\* load otherwise.
InitializeBuilds(f) == f \/ should_rebuild_vectorstore

Initialize(p) ==
  /\ pc[p] = "init"
  /\ IF ~force[p] /\ should_rebuild_raises
       THEN /\ Raise(p, "get_metadata")
            /\ UNCHANGED <<documents, vectorstore, embeddings, files_hash, builds>>
     ELSE IF InitializeBuilds(force[p])
       THEN /\ EnterBuild(p)
            /\ UNCHANGED <<failed, ret>>
     ELSE /\ pc' = [pc EXCEPT ![p] = "l_exists"]
          /\ UNCHANGED <<documents, vectorstore, embeddings, files_hash, failed, builds, ret>>
  /\ UNCHANGED <<disk, force, calls, edits>>

\* ------------------------------------------------------- load_vectorstore
\* The test of lines 156-158: only index.faiss is looked for.
IndexFileExists == dirExists /\ faiss.st # "missing"

LoadExists(p) ==
  /\ pc[p] = "l_exists"
  /\ IF IndexFileExists
       THEN /\ pc' = [pc EXCEPT ![p] = "l_load"]
            /\ UNCHANGED <<documents, vectorstore, embeddings, files_hash, builds>>
       ELSE EnterBuild(p)
  /\ UNCHANGED <<disk, force, failed, ret, calls, edits>>

\* FAISS.load_local reads index.faiss (faiss.read_index) and index.pkl
\* (pickle.load); either raises on a missing or cut-short file.
LoadLocalSucceeds == dirExists /\ faiss.st = "complete" /\ pkl.st = "complete"

\* The load guarded only by the existence test of line 156: nothing that
\* load_local raises on a cut-short or missing file sends the call to a build.
LoadTryRaisesOnMissingOnly(embOk) == ~embOk \/ ~(dirExists /\ faiss.st # "missing")

\* Lines 160-176: create_embeddings, load_local and get_metadata run inside
\* one try; whatever raises there sends the call to build_vectorstore.
LoadTryRaises(embOk) == ~embOk \/ ~LoadLocalSucceeds \/ get_metadata_raises

\* Lines 160-179: on success the loaded handle is returned.
LoadLocal(p) ==
  /\ pc[p] = "l_load"
  /\ \E embOk \in BOOLEAN :
       IF LoadTryRaises(embOk)
         THEN /\ EnterBuild(p)
              /\ failed' = [failed EXCEPT ![p] = "load_local"]
              /\ UNCHANGED ret
         ELSE /\ vectorstore' = [vectorstore EXCEPT ![p] = Vectorstore(faiss.src, pkl.src)]
              /\ embeddings' = [embeddings EXCEPT ![p] = TRUE]
              /\ pc' = [pc EXCEPT ![p] = "done"]
              /\ ret' = [ret EXCEPT ![p] = "value"]
              /\ UNCHANGED <<documents, files_hash, builds, failed>>
  /\ UNCHANGED <<disk, force, calls, edits>>

\* ------------------------------------------------------ build_vectorstore
\* Lines 100-102: a missing PDF returns (None, None) before the try.
BuildExists(p) ==
  /\ pc[p] = "b_exists"
  /\ IF pdf = Absent
       THEN /\ pc' = [pc EXCEPT ![p] = "done"]
            /\ ret' = [ret EXCEPT ![p] = "value"]
            /\ failed' = [failed EXCEPT ![p] = "missing_pdf"]
       ELSE /\ pc' = [pc EXCEPT ![p] = "b_load"]
            /\ UNCHANGED <<ret, failed>>
  /\ UNCHANGED <<disk, force, documents, vectorstore, embeddings, files_hash,
                 builds, calls, edits>>

\* `except Exception as general_e` (141-142): print, then fall to the return
\* statement of line 146 with the locals as they are.
GeneralExcept(p, what) ==
  /\ pc' = [pc EXCEPT ![p] = "b_return"]
  /\ failed' = [failed EXCEPT ![p] = what]

\* How far lines 106-121 get: the name of the call that raises, or "ok".
\* PyPDFLoader(...).load() reads the PDF as it is now and raises when the file
\* is gone; split_documents, create_embeddings and FAISS.from_documents work on
\* what is in memory.
InMemoryStages == {"load", "split", "create_embeddings", "from_documents", "ok"}

\* Line 120 binds `embeddings`: it is bound once create_embeddings returned.
EmbeddingsBoundAfter(stage) == stage \in {"from_documents", "ok"}

\* Lines 106-121: load the PDF, split it, create the embeddings model and
\* assemble the in-memory vectorstore; the first call that raises ends the
\* try block in the general except.
BuildInMemory(p) ==
  /\ pc[p] = "b_load"
  /\ \E stage \in InMemoryStages :
       /\ pdf = Absent => stage = "load"
       /\ documents' = [documents EXCEPT ![p] = IF stage = "load" THEN 0 ELSE pdf]
       /\ embeddings' = [embeddings EXCEPT ![p] = EmbeddingsBoundAfter(stage)]
       /\ IF stage = "ok"
            THEN /\ vectorstore' = [vectorstore EXCEPT ![p] = Vectorstore(pdf, pdf)]
                 /\ pc' = [pc EXCEPT ![p] = "b_mkdir"]
                 /\ UNCHANGED failed
            ELSE /\ GeneralExcept(p, stage)
                 /\ UNCHANGED vectorstore
  /\ UNCHANGED <<disk, force, files_hash, builds, ret, calls, edits>>

\* Line 125: Path(VECTORSTORE_PATH).mkdir(exist_ok=True), outside the inner try.
MakeDir(p) ==
  /\ pc[p] = "b_mkdir"
  /\ \E ok \in BOOLEAN :
       IF ok THEN /\ dirExists' = TRUE
                  /\ pc' = [pc EXCEPT ![p] = "b_save_index"]
                  /\ UNCHANGED failed
             ELSE /\ GeneralExcept(p, "mkdir")
                  /\ UNCHANGED dirExists
  /\ UNCHANGED <<pdf, faiss, pkl, meta, clock, force, documents, vectorstore,
                 embeddings, files_hash, builds, ret, calls, edits>>

\* ---------------------------------------------------------------- persist
\* The inner except without line 139: the in-memory index is kept.
SaveExceptKeepsVectorstore(vs) == vs

\* The metadata write moved out of the inner try: it runs after a failed save.
SaveExceptWritesMetadata == "b_hash"

\* Line 139, in `except Exception as save_e`: vectorstore = None.
SaveExceptVectorstore(vs) == NoVectorstore

\* Where the inner except (136-139) leaves the build: at the return of line
\* 146, past the metadata write.
SaveExceptTarget == "b_return"

SaveExcept(p, what) ==
  /\ vectorstore' = [vectorstore EXCEPT ![p] = SaveExceptVectorstore(@)]
  /\ pc' = [pc EXCEPT ![p] = SaveExceptTarget]
  /\ failed' = [failed EXCEPT ![p] = what]

\* What a write that may fail leaves of a file: the new content, the file as
\* it was (the open failed), or a cut-short file.
WriteOutcomes == {"ok", "unopened", "cut"}

Written(old, new, how) ==
  CASE how = "ok" -> new
    [] how = "unopened" -> old
    [] how = "cut" -> PartialFile

\* Line 128, first half of save_local: the directory is (re)created and
\* faiss.write_index writes index.faiss.
SaveIndex(p) ==
  /\ pc[p] = "b_save_index"
  /\ \E how \in WriteOutcomes :
       /\ dirExists' = (dirExists \/ how # "unopened")
       /\ faiss' = Written(faiss, CompleteFile(vectorstore[p].index), how)
       /\ IF how = "ok"
            THEN /\ pc' = [pc EXCEPT ![p] = "b_save_docstore"]
                 /\ UNCHANGED <<vectorstore, failed>>
            ELSE SaveExcept(p, "save_local")
  /\ UNCHANGED <<pdf, pkl, meta, clock, force, documents, embeddings, files_hash,
                 builds, ret, calls, edits>>

\* Line 128, second half of save_local: pickle.dump writes index.pkl.
SaveDocstore(p) ==
  /\ pc[p] = "b_save_docstore"
  /\ \E how \in WriteOutcomes :
       /\ how # "unopened" => dirExists
       /\ pkl' = Written(pkl, CompleteFile(vectorstore[p].docstore), how)
       /\ IF how = "ok"
            THEN /\ pc' = [pc EXCEPT ![p] = "b_hash"]
                 /\ UNCHANGED <<vectorstore, failed>>
            ELSE SaveExcept(p, "save_local")
  /\ UNCHANGED <<pdf, dirExists, faiss, meta, clock, force, documents, embeddings,
                 files_hash, builds, ret, calls, edits>>

\* Line 132: files_hash = get_file_hash(PDF_FILE_PATH), the PDF as it is now.
BuildHash(p) ==
  /\ pc[p] = "b_hash"
  /\ files_hash' = [files_hash EXCEPT ![p] = get_file_hash(pdf)]
  /\ pc' = [pc EXCEPT ![p] = "b_meta_open"]
  /\ UNCHANGED <<disk, force, documents, vectorstore, embeddings, failed, builds,
                 ret, calls, edits>>

\* Line 65: open(METADATA_FILE, 'w') truncates the file.
SaveMetadataOpen(p) ==
  /\ pc[p] = "b_meta_open"
  /\ \E ok \in BOOLEAN :
       IF ok THEN /\ meta' = TruncatedMetadata
                  /\ pc' = [pc EXCEPT ![p] = "b_meta_dump"]
                  /\ UNCHANGED <<vectorstore, failed>>
             ELSE /\ SaveExcept(p, "save_metadata")
                  /\ UNCHANGED meta
  /\ UNCHANGED <<pdf, dirExists, faiss, pkl, clock, force, documents, embeddings,
                 files_hash, builds, ret, calls, edits>>

\* Line 66: json.dump writes the record (59-64) stamped with datetime.now().
SaveMetadataDump(p) ==
  /\ pc[p] = "b_meta_dump"
  /\ \E ok \in BOOLEAN :
       IF ok THEN /\ meta' = MetadataRecord(files_hash[p], NumPages(documents[p]),
                                            NumChunks(documents[p]), clock + 1)
                  /\ clock' = clock + 1
                  /\ pc' = [pc EXCEPT ![p] = "b_return"]
                  /\ UNCHANGED <<vectorstore, failed>>
             ELSE /\ SaveExcept(p, "save_metadata")
                  /\ UNCHANGED <<meta, clock>>
  /\ UNCHANGED <<pdf, dirExists, faiss, pkl, force, documents, embeddings,
                 files_hash, builds, ret, calls, edits>>

\* Line 146: return vectorstore, embeddings. `embeddings` is a local of
\* build_vectorstore bound only at line 120: reading it unbound raises
\* UnboundLocalError out of the function. The frame is left either way, and
\* with it the locals the caller does not get.
BuildReturn(p) ==
  /\ pc[p] = "b_return"
  /\ pc' = [pc EXCEPT ![p] = "done"]
  /\ ret' = [ret EXCEPT ![p] = IF embeddings[p] THEN "value" ELSE "raised"]
  /\ documents' = [documents EXCEPT ![p] = 0]
  /\ files_hash' = [files_hash EXCEPT ![p] = NoneValue]
  /\ UNCHANGED <<disk, force, vectorstore, embeddings, failed, builds, calls, edits>>

\* ------------------------------------------------------------------- Next
Step(p) ==
  \/ Initialize(p)
  \/ LoadExists(p)
  \/ LoadLocal(p)
  \/ BuildExists(p)
  \/ BuildInMemory(p)
  \/ MakeDir(p)
  \/ SaveIndex(p)
  \/ SaveDocstore(p)
  \/ BuildHash(p)
  \/ SaveMetadataOpen(p)
  \/ SaveMetadataDump(p)
  \/ BuildReturn(p)

\* The cache manager alone: its callers' state (the server's globals, the
\* tutor's components) stays as it is.
Next ==
  \/ \E c \in Docs : ReplaceDoc(c) /\ UNCHANGED <<appvars, ragvars>>
  \/ RemoveDoc /\ UNCHANGED <<appvars, ragvars>>
  \/ \E p \in Procs, f \in BOOLEAN : Call(p, f) /\ UNCHANGED <<appvars, ragvars>>
  \/ \E p \in Procs : Step(p) /\ UNCHANGED <<appvars, ragvars>>

Spec == Init /\ [][Next]_vars

\* The same program with an operator who may also delete the index directory.
NextOps == Next \/ (RemoveIndexDir /\ UNCHANGED <<appvars, ragvars>>)

SpecOps == Init /\ [][NextOps]_vars


\* ------------------------------------------------------------- the server
\* src/main.py on top of the cache manager: the import of dataLoading runs
\* the first initialization, the lifespan hook installs the chain, and the
\* endpoints are served from then on.

\* create_rag_chain(vectorstore, llm): no chain without an index or a model.
create_rag_chain(vs, l) == IF vs = NoVectorstore \/ ~l THEN NoChain ELSE Chain(vs)

\* rag.rag_chain, built once at import from the import-time index.
rag_chain(vs, l) == create_rag_chain(vs, l)

\* The call returned an index to its caller.
ReturnedIndex(p) == ret[p] = "value" /\ vectorstore[p] # NoVectorstore

\* The caller has taken the result: the call's frame is gone.
Release(p) ==
  /\ pc' = [pc EXCEPT ![p] = "idle"]
  /\ force' = [force EXCEPT ![p] = FALSE]
  /\ documents' = [documents EXCEPT ![p] = 0]
  /\ vectorstore' = [vectorstore EXCEPT ![p] = NoVectorstore]
  /\ embeddings' = [embeddings EXCEPT ![p] = FALSE]
  /\ files_hash' = [files_hash EXCEPT ![p] = NoneValue]
  /\ failed' = [failed EXCEPT ![p] = "none"]
  /\ builds' = [builds EXCEPT ![p] = 0]
  /\ ret' = [ret EXCEPT ![p] = "pending"]

\* What an earlier run that built the index of content c left on the disk.
BuiltDisk(c) ==
  /\ dirExists = TRUE
  /\ faiss = CompleteFile(c)
  /\ pkl = CompleteFile(c)
  /\ meta = MetadataRecord(get_file_hash(c), NumPages(c), NumChunks(c), 0)
  /\ clock = 1

\* The server starts on a fresh checkout or on the disk an earlier run left,
\* whatever has happened to the PDF since.
InitApp ==
  /\ pdf \in {Absent} \cup Docs
  /\ \/ /\ dirExists = FALSE
        /\ faiss = NoFile
        /\ pkl = NoFile
        /\ meta = NoMetadata
        /\ clock = 0
     \/ \E c \in Docs : BuiltDisk(c)
  /\ NoCalls

\* The process starts: `from dataLoading import ...` runs line 195 of
\* dataLoading.py, initialize_vectorstore(), in the main thread.
Import ==
  /\ phase = "off"
  /\ Call(1, FALSE)
  /\ phase' = "importing"
  /\ llm' \in BOOLEAN
  /\ UNCHANGED <<module_vectorstore, current_rag_chain, everIndex, lastIndex,
                 resp, ragvars>>

\* The import-time call is over. An exception ends the process; a value is
\* bound to dataLoading.vectorstore and the lifespan hook assigns
\* current_rag_chain = rag_chain.
Lifespan ==
  /\ phase = "importing"
  /\ pc[1] = "done"
  /\ IF ret[1] = "raised"
       THEN /\ phase' = "crashed"
            /\ UNCHANGED <<module_vectorstore, current_rag_chain, everIndex, lastIndex>>
       ELSE /\ phase' = "serving"
            /\ module_vectorstore' = vectorstore[1]
            /\ current_rag_chain' = rag_chain(vectorstore[1], llm)
            /\ everIndex' = ReturnedIndex(1)
            /\ lastIndex' = ReturnedIndex(1)
  /\ Release(1)
  /\ UNCHANGED <<disk, calls, edits, llm, resp, ragvars>>

\* check_status(): the status comes from the module's global, the rest from
\* the metadata file.
check_status_raises == get_metadata_raises
check_status ==
  [status     |-> IF module_vectorstore # NoVectorstore THEN "ready" ELSE "error",
   last_build |-> get_metadata.last_build,
   num_chunks |-> get_metadata.num_chunks]

\* GET /status returns check_status(); nothing catches what it raises.
get_status ==
  IF check_status_raises THEN "status_raised"
  ELSE IF check_status.status = "ready" THEN "status_ready" ELSE "status_error"

GetStatus ==
  /\ phase = "serving"
  /\ resp' = get_status
  /\ UNCHANGED <<disk, locals, calls, edits, phase, module_vectorstore, llm,
                 current_rag_chain, everIndex, lastIndex, ragvars>>

\* POST /lesson: 503 without a chain, the chain's answer otherwise.
LessonAlwaysInvokes(chain) == "lesson_invoked"
create_lesson(chain) ==
  IF chain = NoChain THEN "lesson_503" ELSE "lesson_invoked"

CreateLesson ==
  /\ phase = "serving"
  /\ resp' = create_lesson(current_rag_chain)
  /\ UNCHANGED <<disk, locals, calls, edits, phase, module_vectorstore, llm,
                 current_rag_chain, everIndex, lastIndex, ragvars>>

\* POST /rebuild hands initialize_vectorstore(force_rebuild=True) to a worker
\* thread and awaits it.
RebuildRequest(p) ==
  /\ phase = "serving"
  /\ Call(p, TRUE)
  /\ UNCHANGED <<appvars, ragvars>>

\* The chain main.py line 113 installs for the index the rebuild returned.
RebuildInstalls(old, vs, l) == create_rag_chain(vs, l)

\* The rest of the handler once the worker is done: an exception from the
\* call, or from check_status(), becomes a 500; everything else is the
\* success body.
RebuildRespond(p) ==
  /\ phase = "serving"
  /\ pc[p] = "done"
  /\ IF ret[p] = "raised"
       THEN /\ resp' = "rebuild_500"
            /\ UNCHANGED current_rag_chain
       ELSE /\ current_rag_chain' = RebuildInstalls(current_rag_chain, vectorstore[p], llm)
            /\ resp' = IF check_status_raises THEN "rebuild_500" ELSE "rebuild_success"
  /\ everIndex' = (everIndex \/ ReturnedIndex(p))
  /\ lastIndex' = ReturnedIndex(p)
  /\ Release(p)
  /\ UNCHANGED <<disk, calls, edits, phase, module_vectorstore, llm, ragvars>>

\* One run of the server. Nobody touches the PDF while it is up: what happened
\* to the PDF since the index was built is in InitApp.
NextApp ==
  \/ Import
  \/ Lifespan
  \/ GetStatus
  \/ CreateLesson
  \/ \E p \in Procs : RebuildRequest(p)
  \/ \E p \in Procs : RebuildRespond(p)
  \/ \E p \in Procs : Step(p) /\ UNCHANGED <<appvars, ragvars>>

SpecApp == InitApp /\ [][NextApp]_vars

\* --------------------------------------------------------------- the tutor
\* src/rag.py run as a program: its import of dataLoading runs the first
\* initialization, then the interactive loop loads the components of a
\* subject the first time the subject is asked for.

\* The folders get_available_subjects() finds.
Subjects == {"Mathematics", "English"}

\* Python's truth value of a str: only the empty string is false.
Truthy(s) == s # ""

\* `from dataLoading import ...` (rag.py line 213) and initialize_hf_llm(); the
\* program exits when the model cannot be initialized.
ImportRag ==
  /\ phase = "off"
  /\ Call(1, FALSE)
  /\ phase' = "importing"
  /\ llm' = TRUE
  /\ UNCHANGED <<module_vectorstore, current_rag_chain, everIndex, lastIndex,
                 resp, ragvars>>

\* The import is over: the loop starts, or the exception ends the program.
EnterLoop ==
  /\ phase = "importing"
  /\ pc[1] = "done"
  /\ IF ret[1] = "raised"
       THEN /\ phase' = "crashed"
            /\ UNCHANGED module_vectorstore
       ELSE /\ phase' = "tutor"
            /\ module_vectorstore' = vectorstore[1]
  /\ Release(1)
  /\ UNCHANGED <<disk, calls, edits, llm, current_rag_chain, everIndex,
                 lastIndex, resp, ragvars>>

\* create_rag_components(subject_name, vectorstore, llm): None without an
\* index or a model.
create_rag_components(s, vs, l) ==
  IF vs = NoVectorstore \/ ~l THEN NoChain ELSE Chain(vs)

\* The argument load_subject_components hands to initialize_vectorstore:
\* the subject's name, bound to the only parameter, force_rebuild.
LoadSubjectForce(s) == Truthy(s)

\* The loop asks for a subject without components: load_subject_components
\* calls initialize_vectorstore(subject_name).
LoadSubjectComponents(s) ==
  /\ phase = "tutor"
  /\ loading = ""
  /\ s \notin rag_components
  /\ Call(1, LoadSubjectForce(s))
  /\ loading' = s
  /\ UNCHANGED <<appvars, rag_components>>

\* The call is back: the components are stored when there is an index; an
\* exception ends the loop and the program.
LoadSubjectReturn ==
  /\ phase = "tutor"
  /\ loading # ""
  /\ pc[1] = "done"
  /\ IF ret[1] = "raised"
       THEN /\ phase' = "crashed"
            /\ UNCHANGED rag_components
       ELSE /\ phase' = phase
            /\ rag_components' =
                 IF create_rag_components(loading, vectorstore[1], llm) # NoChain
                   THEN rag_components \cup {loading}
                   ELSE rag_components
  /\ loading' = ""
  /\ Release(1)
  /\ UNCHANGED <<disk, calls, edits, module_vectorstore, llm, current_rag_chain,
                 everIndex, lastIndex, resp>>

NextRag ==
  \/ \E c \in Docs : ReplaceDoc(c) /\ UNCHANGED <<appvars, ragvars>>
  \/ RemoveDoc /\ UNCHANGED <<appvars, ragvars>>
  \/ ImportRag
  \/ EnterLoop
  \/ \E s \in Subjects : LoadSubjectComponents(s)
  \/ LoadSubjectReturn
  \/ Step(1) /\ UNCHANGED <<appvars, ragvars>>

SpecRag == Init /\ [][NextRag]_vars

\* ================================================================= claims
\* A step of thread p: every statement of p moves its pc.
Moved(p) == pc'[p] # pc[p]

\* The metadata holds a record whose file_hash is the PDF's current fingerprint.
FingerprintMatches == meta.st = "written" /\ meta.file_hash = get_file_hash(pdf)

\* Both files of the index directory are there and completely written.
ArtifactSetComplete == dirExists /\ faiss.st = "complete" /\ pkl.st = "complete"

\* The index on disk was built from document content c.
IndexBuiltFrom(c) == dirExists /\ faiss = CompleteFile(c) /\ pkl = CompleteFile(c)

\* C1: whenever the index directory exists and the metadata's file_hash equals
\* get_file_hash of the current PDF, the index on disk was built from the
\* content the PDF has now (the PDF may be replaced or removed at any moment).
C1_FingerprintTrustworthy ==
  (dirExists /\ FingerprintMatches) => (pdf # Absent /\ IndexBuiltFrom(pdf))

\* C2: after any sequence of builds, a metadata record on disk implies a
\* complete, loadable artifact set in the index directory.
C2_MetadataImpliesLoadableIndex ==
  meta.st = "written" => ArtifactSetComplete

\* C3: a build whose save_local failed writes no metadata: every step of a
\* thread whose save_local has raised, the failing step included, leaves the
\* metadata file exactly as it was.
C3_PersistFailureWritesNoMetadata ==
  [][\A p \in Procs : (Moved(p) /\ failed'[p] = "save_local") => meta' = meta]_vars

\* A build has returned after its save_local failed while an earlier build's
\* metadata record is on disk.
C3_Witness ==
  \E p \in Procs : pc[p] = "done" /\ failed[p] = "save_local" /\ meta.st = "written"

\* C4 as claimed: a build whose save_local failed still returns the usable
\* in-memory index.
C4_PersistFailureKeepsIndex ==
  \A p \in Procs :
    (pc[p] = "done" /\ failed[p] = "save_local")
      => (ret[p] = "value" /\ vectorstore[p] # NoVectorstore)

\* C4 as amended: a build whose save_local failed returns normally, with None
\* for the index and the embeddings model it created.
C4_PersistFailureReturnsNone ==
  \A p \in Procs :
    (pc[p] = "done" /\ failed[p] = "save_local")
      => (ret[p] = "value" /\ vectorstore[p] = NoVectorstore /\ embeddings[p])

\* A call has returned from a build whose save_local failed.
C4_Witness ==
  \E p \in Procs : pc[p] = "done" /\ failed[p] = "save_local" /\ builds[p] = 1

\* C5: no exception escapes build_vectorstore or initialize_vectorstore,
\* whichever stage fails.
C5_NoExceptionEscapes ==
  \A p \in Procs : ret[p] # "raised"

\* Thread p has begun save_local and has not finished save_metadata.
InPersist(p) == pc[p] \in {"b_save_docstore", "b_hash", "b_meta_open", "b_meta_dump"}

\* C6: two rebuilds never interleave their persist steps: while one is between
\* the start of its save_local and the end of its save_metadata, no other is.
C6_PersistStepsSerialized ==
  \A p, q \in Procs : (p # q /\ InPersist(p)) => ~InPersist(q)

\* C7: with the index directory absent, a non-forced initialize_vectorstore
\* goes to build_vectorstore, whatever the metadata holds.
C7_AbsentDirectoryBuilds ==
  [][\A p \in Procs :
       (pc[p] = "init" /\ ~force[p] /\ ~dirExists /\ Moved(p))
         => (pc'[p] = "b_exists" /\ builds'[p] = 1)]_vars

\* A non-forced call has entered the builder although the metadata on disk
\* matches the PDF: the index directory is gone.
C7_Witness ==
  \E p \in Procs :
    /\ pc[p] = "b_exists" /\ ~force[p] /\ builds[p] = 1
    /\ ~dirExists /\ FingerprintMatches

\* C8: a non-forced call that finds the directory and a matching fingerprint
\* takes the load path without entering the builder; the load path never
\* writes the metadata or the index files; and a load that succeeds returns
\* the handle read from the two index files, the builder never invoked.
C8_CachedLoadLeavesDiskAlone ==
  [][\A p \in Procs :
       /\ (pc[p] = "init" /\ ~force[p] /\ dirExists /\ FingerprintMatches /\ Moved(p))
            => (pc'[p] = "l_exists" /\ builds'[p] = 0)
       /\ (pc[p] \in {"init", "l_exists", "l_load"} /\ Moved(p))
            => <<dirExists, faiss, pkl, meta>>' = <<dirExists, faiss, pkl, meta>>
       /\ (pc[p] = "l_exists" /\ IndexFileExists /\ Moved(p)) => pc'[p] = "l_load"
       /\ (pc[p] = "l_load" /\ pc'[p] = "done")
            => /\ ret'[p] = "value"
               /\ builds'[p] = 0
               /\ ArtifactSetComplete
               /\ vectorstore'[p] = Vectorstore(faiss.src, pkl.src)]_vars

\* A non-forced call has returned a loaded index without any build.
C8_Witness ==
  \E p \in Procs :
    /\ pc[p] = "done" /\ ~force[p] /\ builds[p] = 0
    /\ ret[p] = "value" /\ vectorstore[p] # NoVectorstore

\* C9: when the load path meets a directory in which index.faiss or index.pkl
\* is missing or cut short, it returns no handle: the load statement goes to
\* build_vectorstore.
C9_NeverLoadsPartialIndex ==
  [][\A p \in Procs :
       (pc[p] \in {"l_exists", "l_load"} /\ ~ArtifactSetComplete /\ Moved(p))
         => /\ pc'[p] \in {"l_load", "b_exists"}
            /\ ret'[p] = "pending"
            /\ pc[p] = "l_load" => (pc'[p] = "b_exists" /\ builds'[p] = 1)]_vars

\* The load of a directory holding a cut-short file has fallen back to a build.
C9_Witness ==
  \E p \in Procs :
    /\ pc[p] = "b_exists" /\ failed[p] = "load_local" /\ builds[p] = 1
    /\ dirExists /\ (faiss.st = "partial" \/ pkl.st = "partial")

\* C10: with the PDF absent (and the metadata readable), a non-forced call
\* never takes the cached index: it goes to build_vectorstore.
C10_MissingDocumentBuilds ==
  [][\A p \in Procs :
       (pc[p] = "init" /\ ~force[p] /\ pdf = Absent /\ ~get_metadata_raises /\ Moved(p))
         => pc'[p] = "b_exists"]_vars

C12_SuccessOnlyWithIndex == resp = "rebuild_success" => lastIndex

\* C13: a reader never finds the metadata file between its old and its new
\* record: GET /status never fails on a record a running rebuild is writing.
C13_StatusNeverFailsOnMetadata ==
  [][(/\ \E p \in Procs : pc[p] \in {"b_meta_open", "b_meta_dump"}
      /\ resp' # resp
      /\ resp' \in {"status_ready", "status_error", "status_raised"})
       => resp' # "status_raised"]_vars

\* C16: the status GET /status reports is "ready" exactly when the most recent
\* initialization of the process (the import-time one or a later POST
\* /rebuild) returned an index.
C16_StatusTracksLastInitialization ==
  resp \in {"status_ready", "status_error"} =>
    (resp = "status_ready" <=> lastIndex)

\* The handler of POST /rebuild resumes after the call of thread p.
Responds(p) == phase = "serving" /\ pc[p] = "done" /\ pc'[p] = "idle"

\* C17: a POST /rebuild whose build produced no index leaves a ready chain in
\* place, so POST /lesson keeps being served.
C17_FailedRebuildKeepsChain ==
  [][\A p \in Procs :
       (Responds(p) /\ current_rag_chain # NoChain /\ ~ReturnedIndex(p)) =>
         /\ current_rag_chain' = current_rag_chain
         /\ create_lesson(current_rag_chain') = "lesson_invoked"]_vars

\* The place of a statement in one pass through initialize_vectorstore: the
\* loader's statements come before the builder's.
Rank(at) ==
  CASE at = "init" -> 0
    [] at = "l_exists" -> 1
    [] at = "l_load" -> 2
    [] at = "b_exists" -> 3
    [] at = "b_load" -> 4
    [] at = "b_mkdir" -> 5
    [] at = "b_save_index" -> 6
    [] at = "b_save_docstore" -> 7
    [] at = "b_hash" -> 8
    [] at = "b_meta_open" -> 9
    [] at = "b_meta_dump" -> 10
    [] at = "b_return" -> 11
    [] OTHER -> 12

\* An index with both of its parts.
WholeIndex(vs) == vs.index # Absent /\ vs.docstore # Absent

\* C14: an invocation of initialize_vectorstore enters the builder at most
\* once, and what it hands back is a value: no index (the failure value) or a
\* whole index, built or loaded, never an exception and never half an index.
C14_OnePassWholeResult ==
  \A p \in Procs :
    /\ builds[p] <= 1
    /\ pc[p] = "done" =>
         /\ ret[p] = "value"
         /\ vectorstore[p] = NoVectorstore \/ WholeIndex(vectorstore[p])

\* C14, the part about termination: every statement of an invocation moves it
\* forward through the loader and then the builder, so no statement runs
\* twice and the loader and the builder are each entered at most once.
C14_EveryStepAdvances ==
  [][\A p \in Procs :
       (Running(p) /\ Moved(p)) => Rank(pc'[p]) > Rank(pc[p])]_vars

\* C14, the part about termination: an invocation under way can always take
\* its next statement.
C14_NeverStuck == \A p \in Procs : Running(p) => ENABLED Step(p)

\* C14, the part about the result: what is returned as a value is no index or
\* a whole one.
C14_ReturnedIndexIsWhole ==
  \A p \in Procs :
    (pc[p] = "done" /\ ret[p] = "value") =>
      (vectorstore[p] = NoVectorstore \/ WholeIndex(vectorstore[p]))

\* C15: the first use of a subject goes through the non-forced decision: when
\* the index directory is complete and the metadata holds the fingerprint of
\* the unchanged PDF, load_subject_components takes the load path and the
\* builder is not entered.
C15_FirstUseLoadsCache ==
  [][(/\ loading # ""
      /\ pc[1] = "init"
      /\ Moved(1)
      /\ ArtifactSetComplete
      /\ FingerprintMatches)
       => (pc'[1] = "l_exists" /\ builds'[1] = 0)]_vars

====
